---- MODULE Spec2Model ----
(***************************************************************************)
(* A model of visualizer.py: the TreeVisualizer (tree builder and search   *)
(* engine, as pure functions of a directory tree and a configuration) and  *)
(* the FileStructureCreator application (UI handlers, background worker    *)
(* threads, the shared progress queue and the timer-driven monitors).      *)
(*                                                                         *)
(* Strings are sequences of one-character strings.  The box-drawing        *)
(* characters of the source are not representable in a module, so they are *)
(* written with ASCII stand-ins:                                           *)
(*     "|" is U+2502 (vertical bar)      "+" is U+251C (tee)               *)
(*     "^" is U+2514 (elbow)             "-" is U+2500 (horizontal bar)    *)
(***************************************************************************)
EXTENDS Integers, Sequences, FiniteSets, TLC

----------------------------------------------------------------------------
(* Characters and strings                                                  *)

BoxV == "|"
BoxT == "+"
BoxL == "^"
BoxH == "-"

\* Optional values: None, or Some(x) holding x
None == <<>>
Some(x) == <<x>>

Upper == <<"A","B","C","D","E","F","G","H","I","J","K","L","M",
           "N","O","P","Q","R","S","T","U","V","W","X","Y","Z">>
LowerCase == <<"a","b","c","d","e","f","g","h","i","j","k","l","m",
               "n","o","p","q","r","s","t","u","v","w","x","y","z">>

\* The characters of the model in code-point order (what str comparison uses).
CharOrder == <<"\n", " ", "*", ".", "/", "?">> \o Upper \o <<"[", "]", "_">>
             \o LowerCase \o <<BoxH, BoxV, BoxL, BoxT>>

Ord(c) == CHOOSE i \in 1..Len(CharOrder) : CharOrder[i] = c

\* str.lower() on one character
LowerChar(c) ==
    IF \E i \in 1..Len(Upper) : Upper[i] = c
    THEN LowerCase[CHOOSE i \in 1..Len(Upper) : Upper[i] = c]
    ELSE c

\* str.lower()
lower(s) == [i \in 1..Len(s) |-> LowerChar(s[i])]

\* s < t for Python strings: lexicographic by code point, a proper prefix first
StrLess(s, t) ==
    \E k \in 1..(Len(t)) :
        /\ \A j \in 1..(k-1) : j <= Len(s) /\ s[j] = t[j]
        /\ \/ k = Len(s) + 1
           \/ k <= Len(s) /\ Ord(s[k]) < Ord(t[k])

\* s.startswith(p)
startswith(s, p) == Len(p) <= Len(s) /\ SubSeq(s, 1, Len(p)) = p

\* p in s (substring containment)
contains(s, p) ==
    \E i \in 0..(Len(s) - Len(p)) : SubSeq(s, i + 1, i + Len(p)) = p

\* sep.join(parts)
RECURSIVE join(_, _)
join(sep, parts) ==
    IF parts = <<>> THEN <<>>
    ELSE IF Len(parts) = 1 THEN parts[1]
    ELSE parts[1] \o sep \o join(sep, Tail(parts))

\* s.split(sep) for a one-character separator
RECURSIVE split(_, _)
split(s, sep) ==
    IF \A i \in 1..Len(s) : s[i] # sep THEN <<s>>
    ELSE LET k == CHOOSE i \in 1..Len(s) :
                     s[i] = sep /\ \A j \in 1..(i-1) : s[j] # sep
         IN  <<SubSeq(s, 1, k - 1)>> \o split(SubSeq(s, k + 1, Len(s)), sep)

----------------------------------------------------------------------------
(* Bounds of the model                                                     *)

\* entry names are the first NumNames names of NamePool
NumNames == 4
\* max_depth ranges over None and 0..MaxDepthOpt
MaxDepthOpt == 1
\* the user starts at most MaxOps operations (tree, search, save) in a run
MaxOps == 2
\* a scan reports at most MaxProgress directories before it ends
MaxProgress == 1

\* search patterns have at most MaxPatternLen characters and the names they
\* are matched against at most MaxNameLen
MaxPatternLen == 3
MaxNameLen == 3

----------------------------------------------------------------------------
(* The directory tree on disk                                              *)

NamePool == << <<"a">>, <<"B">>, <<".", "x">>, <<"A">>, <<"a", "x">> >>
Names == {NamePool[i] : i \in 1..NumNames}

\* Slot 0 is the scan root.  A slot holds at most one directory entry; the
\* children of a directory are listed (iterdir) in the order of its slots.
Slots == 0..6
ChildSlots == [s \in Slots |->
                 CASE s = 0 -> <<1, 2, 3>>
                   [] s = 1 -> <<4, 5>>
                   [] s = 4 -> <<6>>
                   [] OTHER -> <<>>]

\* kind: "dir" a listable directory, "denied" a directory whose listing raises
\* PermissionError/OSError, "file" a regular file, "other" an entry that is
\* neither (a broken symlink, a socket, ...), "absent" an empty slot.
Absent == [name |-> <<>>, kind |-> "absent"]
Entries(names, kinds) == [name : names, kind : kinds]

RootName == <<"r">>

is_dir(fs, s) == fs[s].kind \in {"dir", "denied"}
is_file(fs, s) == fs[s].kind = "file"

\* list(root_dir.iterdir()): the entries of directory d, in listing order
iterdir(fs, d) ==
    LET Present(s) == fs[s].kind # "absent"
    IN  SelectSeq(ChildSlots[d], Present)

\* The slot of each present entry, with its parent and its depth below the
\* root (the root's direct children have depth 1).
ParentOf(s) == CHOOSE d \in Slots : \E i \in 1..Len(ChildSlots[d]) : ChildSlots[d][i] = s
RECURSIVE DepthOf(_)
DepthOf(s) == IF s = 0 THEN 0 ELSE 1 + DepthOf(ParentOf(s))

----------------------------------------------------------------------------
(* TreeVisualizer                                                          *)

DefaultExcludes ==
    << <<"_","_","p","y","c","a","c","h","e","_","_">>,
       <<".","g","i","t">>,
       <<".","D","S","_","S","t","o","r","e">>,
       <<".","p","y","t","e","s","t","_","c","a","c","h","e">>,
       <<"n","o","d","e","_","m","o","d","u","l","e","s">> >>

\* TreeVisualizer.__init__
TreeVisualizer(show_hidden, max_depth, exclude_patterns) ==
    [show_hidden |-> show_hidden,
     max_depth |-> max_depth,
     exclude_patterns |-> IF exclude_patterns = <<>> THEN DefaultExcludes
                          ELSE exclude_patterns]

\* should_exclude without its hidden-file rule: a faulty variant, to test C10
should_exclude_patterns_only(cfg, name) ==
    \E i \in 1..Len(cfg.exclude_patterns) :
        contains(name, cfg.exclude_patterns[i])

\* TreeVisualizer.should_exclude
should_exclude(cfg, name) ==
    IF ~cfg.show_hidden /\ startswith(name, <<".">>) THEN TRUE
    ELSE \E i \in 1..Len(cfg.exclude_patterns) :
             contains(name, cfg.exclude_patterns[i])

\* the depth guard that opens get_tree_lines and search_recursive
DepthExceeded(cfg, depth) ==
    cfg.max_depth # None /\ depth > cfg.max_depth[1]

\* sorted(items, key=lambda x: x.name.lower()): a stable sort
RECURSIVE InsertByKey(_, _, _)
InsertByKey(fs, sorted, s) ==
    IF sorted = <<>> THEN <<s>>
    ELSE IF StrLess(lower(fs[s].name), lower(fs[Head(sorted)].name))
         THEN <<s>> \o sorted
         ELSE <<Head(sorted)>> \o InsertByKey(fs, Tail(sorted), s)

RECURSIVE SortedFrom(_, _, _)
SortedFrom(fs, acc, items) ==
    IF items = <<>> THEN acc
    ELSE SortedFrom(fs, InsertByKey(fs, acc, Head(items)), Tail(items))

\* sorted(items, key=lambda x: x.name): the sort without lower(), a faulty
\* variant, to test C9
RECURSIVE InsertByName(_, _, _)
InsertByName(fs, sorted, s) ==
    IF sorted = <<>> THEN <<s>>
    ELSE IF StrLess(fs[s].name, fs[Head(sorted)].name)
         THEN <<s>> \o sorted
         ELSE <<Head(sorted)>> \o InsertByName(fs, Tail(sorted), s)

RECURSIVE SortedByNameFrom(_, _, _)
SortedByNameFrom(fs, acc, items) ==
    IF items = <<>> THEN acc
    ELSE SortedByNameFrom(fs, InsertByName(fs, acc, Head(items)), Tail(items))

sorted_by_name(fs, items) == SortedByNameFrom(fs, <<>>, items)

sorted_by_lower_name(fs, items) == SortedFrom(fs, <<>>, items)

\* get_tree_lines, lines 32-39: the filtered children, directories then files
sorted_items(fs, cfg, d) ==
    LET Kept(s) == ~should_exclude(cfg, fs[s].name)
        IsDir(s) == is_dir(fs, s)
        IsFile(s) == is_file(fs, s)
        items == SelectSeq(iterdir(fs, d), Kept)
        dirs == sorted_by_lower_name(fs, SelectSeq(items, IsDir))
        files == sorted_by_lower_name(fs, SelectSeq(items, IsFile))
    IN  dirs \o files

ElbowConnector == <<BoxL, BoxH, BoxH, " ">>
TeeConnector == <<BoxT, BoxH, BoxH, " ">>
BlankIndent == <<" ", " ", " ", " ">>
BarIndent == <<BoxV, " ", " ", " ">>
PermissionDenied ==
    <<"[","P","e","r","m","i","s","s","i","o","n"," ","D","e","n","i","e","d","]">>

\* get_tree_lines, lines 46-51: the connector of an item
connector(is_last, is_last_item) ==
    IF is_last
    THEN (IF is_last_item THEN ElbowConnector ELSE TeeConnector)
    ELSE (IF is_last_item THEN TeeConnector ELSE TeeConnector)

\* get_tree_lines, lines 46-51: the prefix handed to an item's children
next_prefix(prefix, is_last) ==
    IF is_last THEN prefix \o BlankIndent ELSE prefix \o BarIndent

\* TreeVisualizer.get_tree_lines; tree_loop is its for loop from item i on
RECURSIVE get_tree_lines(_, _, _, _, _, _)
RECURSIVE tree_loop(_, _, _, _, _, _, _)
get_tree_lines(fs, cfg, root_dir, prefix, is_last, depth) ==
    IF DepthExceeded(cfg, depth) THEN <<>>
    ELSE IF fs[root_dir].kind = "denied"
         THEN << prefix \o ElbowConnector \o PermissionDenied >>
         ELSE tree_loop(fs, cfg, sorted_items(fs, cfg, root_dir), 1,
                        prefix, is_last, depth)

tree_loop(fs, cfg, items, i, prefix, is_last, depth) ==
    IF i > Len(items) THEN <<>>
    ELSE LET item == items[i]
             is_last_item == (i = Len(items))
             line == prefix \o connector(is_last, is_last_item) \o fs[item].name
             child_lines ==
                 IF is_dir(fs, item)
                 THEN get_tree_lines(fs, cfg, item,
                                     next_prefix(prefix, is_last),
                                     is_last_item, depth + 1)
                 ELSE <<>>
         IN  <<line>> \o child_lines
             \o tree_loop(fs, cfg, items, i + 1, prefix, is_last, depth)

\* TreeVisualizer.visualize (root_path.name is never empty here)
visualize(fs, cfg) ==
    join(<<"\n">>, << fs[0].name \o <<"/">> >>
                   \o get_tree_lines(fs, cfg, 0, <<>>, TRUE, 0))

\* The names from the scan root down to entry s (item.relative_to(root_path))
RECURSIVE PathNames(_, _)
PathNames(fs, s) ==
    IF s = 0 THEN <<>> ELSE PathNames(fs, ParentOf(s)) \o <<fs[s].name>>

\* str.replace(old, new) for a one-character old
RECURSIVE replace(_, _, _)
replace(s, old, new) ==
    IF s = <<>> THEN <<>>
    ELSE (IF Head(s) = old THEN new ELSE <<Head(s)>>)
         \o replace(Tail(s), old, new)

\* regex_pattern without the escaping of '.': a faulty variant, to test C12
regex_pattern_unescaped(search_lower) ==
    LET starred == replace(search_lower, "*", <<".", "*">>)
        queried == replace(starred, "?", <<".">>)
    IN  <<"^">> \o queried \o <<"$">>

\* search_files, lines 75-78: the text of the regular expression
regex_pattern(search_lower) ==
    LET escaped == replace(search_lower, ".", <<"\\", ".">>)
        starred == replace(escaped, "*", <<".", "*">>)
        queried == replace(starred, "?", <<".">>)
    IN  <<"^">> \o queried \o <<"$">>

\* re.compile on the expressions that regex_pattern produces: "^" and "$"
\* anchor, "\c" is the character c, ".*" any sequence, "." any one
\* character, any other character itself
RECURSIVE re_compile(_)
re_compile(text) ==
    IF text = <<>> THEN <<>>
    ELSE CASE Head(text) = "^" ->
                  <<[t |-> "bol", c |-> ""]>> \o re_compile(Tail(text))
           [] Head(text) = "$" ->
                  <<[t |-> "eol", c |-> ""]>> \o re_compile(Tail(text))
           [] Head(text) = "\\" /\ Len(text) >= 2 ->
                  <<[t |-> "lit", c |-> text[2]]>>
                  \o re_compile(SubSeq(text, 3, Len(text)))
           [] Head(text) = "." /\ Len(text) >= 2 /\ text[2] = "*" ->
                  <<[t |-> "anystar", c |-> ""]>>
                  \o re_compile(SubSeq(text, 3, Len(text)))
           [] Head(text) = "." ->
                  <<[t |-> "any", c |-> ""]>> \o re_compile(Tail(text))
           [] OTHER ->
                  <<[t |-> "lit", c |-> Head(text)]>> \o re_compile(Tail(text))

\* search_files, lines 74-81: the compiled pattern
compile_pattern(search_lower) == re_compile(regex_pattern(search_lower))

\* does the compiled expression re match a prefix of s (at_start: s begins
\* where the searched string begins)
RECURSIVE match_here(_, _, _)
match_here(re, s, at_start) ==
    IF re = <<>> THEN TRUE
    ELSE CASE Head(re).t = "bol" ->
                 at_start /\ match_here(Tail(re), s, at_start)
           [] Head(re).t = "eol" ->
                 s = <<>> /\ match_here(Tail(re), s, at_start)
           [] Head(re).t = "lit" ->
                 s # <<>> /\ Head(s) = Head(re).c
                          /\ match_here(Tail(re), Tail(s), FALSE)
           [] Head(re).t = "any" ->
                 s # <<>> /\ match_here(Tail(re), Tail(s), FALSE)
           [] OTHER ->
                 \E k \in 0..Len(s) :
                     match_here(Tail(re), SubSeq(s, k + 1, Len(s)),
                                at_start /\ k = 0)

\* pattern_re.search(s) is not None: a match starting anywhere in s
regex_match(re, s) ==
    \E k \in 0..Len(s) : match_here(re, SubSeq(s, k + 1, Len(s)), k = 0)

\* search_files, lines 99-105: does the name match the pattern
matches(search_pattern, name) ==
    LET search_lower == lower(search_pattern)
        item_lower == lower(name)
    IN  IF (\E i \in 1..Len(search_pattern) : search_pattern[i] \in {"*", "?"})
        THEN regex_match(compile_pattern(search_lower), item_lower)
        ELSE contains(item_lower, search_lower)

\* search_files, lines 108-116: the record of a matching entry (size and
\* modified come from stat() and are left out)
search_result(fs, item) ==
    [name |-> fs[item].name,
     relative_path |-> join(<<"/">>, PathNames(fs, item)),
     type |-> IF is_dir(fs, item) THEN "directory" ELSE "file"]

\* search_files.search_recursive; search_loop is its for loop from item i on
RECURSIVE search_recursive(_, _, _, _, _)
RECURSIVE search_loop(_, _, _, _, _, _)
search_recursive(fs, cfg, search_pattern, current_path, depth) ==
    IF DepthExceeded(cfg, depth) THEN <<>>
    ELSE IF fs[current_path].kind = "denied" THEN <<>>
         ELSE search_loop(fs, cfg, search_pattern, iterdir(fs, current_path), 1, depth)

search_loop(fs, cfg, search_pattern, items, i, depth) ==
    IF i > Len(items) THEN <<>>
    ELSE LET item == items[i]
             here == IF should_exclude(cfg, fs[item].name) THEN <<>>
                     ELSE (IF matches(search_pattern, fs[item].name)
                           THEN <<search_result(fs, item)>> ELSE <<>>)
                          \o (IF is_dir(fs, item)
                              THEN search_recursive(fs, cfg, search_pattern,
                                                    item, depth + 1)
                              ELSE <<>>)
         IN  here \o search_loop(fs, cfg, search_pattern, items, i + 1, depth)

\* TreeVisualizer.search_files
search_files(fs, cfg, search_pattern) ==
    search_recursive(fs, cfg, search_pattern, 0, 0)

----------------------------------------------------------------------------
(* State                                                                   *)

VARIABLES
    fs,        \* the directory tree under the scan root
    cfg,       \* the TreeVisualizer (show_hidden, max_depth, exclude_patterns)
    tree,      \* the string returned by visualize, None before the call
    pattern,   \* the search pattern, None before the search
    results    \* the list returned by search_files, None before the call

VARIABLES
    current_path,    \* FileStructureCreator.current_path
    visualizer,      \* FileStructureCreator.visualizer: the object it refers to
    heap,            \* the TreeVisualizer objects, by object identity
    progress_queue,  \* FileStructureCreator.progress_queue (FIFO)
    is_processing,   \* FileStructureCreator.is_processing
    tree_text,       \* the content of the tree view
    results_tree,    \* the rows of the search result table
    ops,             \* per started operation: its worker thread and its monitor
    timers,          \* the operations whose monitor callback root.after holds
    nOps,            \* how many operations the user has started
    handled,         \* operations whose terminal event a monitor acted on
    discarded        \* operations whose terminal event a monitor threw away

treeVars == <<fs, cfg, tree, pattern, results>>
appVars == <<current_path, visualizer, heap, progress_queue, is_processing,
             tree_text, results_tree, ops, timers, nOps,
             handled, discarded>>
vars == <<treeVars, appVars>>

----------------------------------------------------------------------------
(* FileStructureCreator: the application                                   *)

Folders == {"F1", "F2"}
OpIds == 1..MaxOps

\* what the option widgets can hold when a handler reads them
GuiDepthChoices == {None, Some(1)}
GuiOptions == { <<FALSE, None>>, <<TRUE, Some(1)>> }
\* exclude_var as the window is built: ".git, __pycache__, node_modules"
GuiExcludes ==
    << <<".","g","i","t">>,
       <<"_","_","p","y","c","a","c","h","e","_","_">>,
       <<"n","o","d","e","_","m","o","d","u","l","e","s">> >>

\* an operation that has not been started
NoOp == [kind |-> "none", pc |-> "none", viz |-> 0, path |-> "",
         left |-> 0, mon |-> "none", got |-> FALSE]

\* threading.Thread(target=...).start() followed by root.after(100, monitor):
\* the thread has yet to run its first statement, the callback is pending
StartedOp(kind) == [kind |-> kind, pc |-> "ready", viz |-> 0, path |-> "",
                    left |-> MaxProgress, mon |-> "pending", got |-> FALSE]

Message(type, op, path) == [type |-> type, op |-> op, path |-> path]
TerminalTypes == {"done", "search_done", "save_done", "error"}

EmptyView == [st |-> "empty", op |-> 0, path |-> ""]

\* FileStructureCreator.__init__
AppInit ==
    /\ current_path = None
    /\ visualizer = 0
    /\ heap = [o \in 0..MaxOps |->
                 IF o = 0 THEN Some(TreeVisualizer(FALSE, None, <<>>)) ELSE None]
    /\ progress_queue = <<>>
    /\ is_processing = FALSE
    /\ tree_text = EmptyView
    /\ results_tree = EmptyView
    /\ ops = [o \in OpIds |-> NoOp]
    /\ timers = {}
    /\ nOps = 0
    /\ handled = {}
    /\ discarded = {}

\* FileStructureCreator.generate_tree, run with current_path already set to
\* path; show_hidden and max_depth are what the option widgets hold
generate_tree(path, show_hidden, max_depth) ==
    IF is_processing
    THEN UNCHANGED <<visualizer, heap, progress_queue, is_processing, tree_text,
                     results_tree, ops, timers, nOps,
                     handled, discarded>>
    ELSE /\ nOps < MaxOps
         /\ is_processing' = TRUE
         /\ tree_text' = [st |-> "generating", op |-> 0, path |-> ""]
         /\ visualizer' = nOps + 1
         /\ heap' = [heap EXCEPT ![nOps + 1] =
                        Some(TreeVisualizer(show_hidden, max_depth, GuiExcludes))]
         /\ ops' = [ops EXCEPT ![nOps + 1] = StartedOp("tree")]
         /\ timers' = timers \cup {nOps + 1}
         /\ nOps' = nOps + 1
         /\ UNCHANGED <<progress_queue, results_tree, handled, discarded>>

\* FileStructureCreator.select_folder with a folder chosen in the dialog
select_folder ==
    \E folder_path \in Folders, opt \in GuiOptions :
        /\ current_path' = Some(folder_path)
        /\ generate_tree(folder_path, opt[1], opt[2])
        /\ UNCHANGED treeVars

\* FileStructureCreator.search_files with a non-empty pattern entered
\* (without a folder or a pattern it only shows a warning)
search_files_clicked ==
    \E m \in GuiDepthChoices :
        /\ current_path # None
        /\ nOps < MaxOps
        /\ is_processing' = TRUE
        /\ results_tree' = EmptyView
        /\ heap' = [heap EXCEPT ![visualizer] =
                       Some([heap[visualizer][1] EXCEPT !.max_depth = m])]
        /\ ops' = [ops EXCEPT ![nOps + 1] = StartedOp("search")]
        /\ timers' = timers \cup {nOps + 1}
        /\ nOps' = nOps + 1
        /\ UNCHANGED <<current_path, visualizer, progress_queue, tree_text,
                       handled, discarded>>
        /\ UNCHANGED treeVars

\* FileStructureCreator.save_structure with a file chosen, and _save_to_file
save_structure ==
    /\ current_path # None
    /\ nOps < MaxOps
    /\ ops' = [ops EXCEPT ![nOps + 1] = StartedOp("save")]
    /\ timers' = timers \cup {nOps + 1}
    /\ nOps' = nOps + 1
    /\ UNCHANGED <<current_path, visualizer, heap, progress_queue, is_processing,
                   tree_text, results_tree, handled, discarded>>
    /\ UNCHANGED treeVars

\* The first statement of _generate_tree_thread / _search_files_thread: the
\* thread evaluates self.visualizer and self.current_path
scan_thread_begin(op) ==
    /\ ops[op].kind \in {"tree", "search"}
    /\ ops[op].pc = "ready"
    /\ ops' = [ops EXCEPT ![op].pc = "running",
                          ![op].viz = visualizer,
                          ![op].path = current_path[1]]
    /\ UNCHANGED <<current_path, visualizer, heap, progress_queue, is_processing,
                   tree_text, results_tree, timers, nOps,
                   handled, discarded>>
    /\ UNCHANGED treeVars

\* a scan thread that reports one more directory after its terminal event:
\* a faulty variant, to test C18
scan_thread_progress_late(op) ==
    /\ ops[op].kind \in {"tree", "search"}
    /\ ops[op].pc \in {"running", "finished"}
    /\ ops[op].left > 0
    /\ progress_queue' = Append(progress_queue, Message("progress", op, ops[op].path))
    /\ ops' = [ops EXCEPT ![op].left = @ - 1]
    /\ UNCHANGED <<current_path, visualizer, heap, is_processing, tree_text,
                   results_tree, timers, nOps, handled, discarded>>
    /\ UNCHANGED treeVars

\* get_tree_lines / search_recursive list one directory:
\* progress_queue.put(('progress', len(items)))
scan_thread_progress(op) ==
    /\ ops[op].kind \in {"tree", "search"}
    /\ ops[op].pc = "running"
    /\ ops[op].left > 0
    /\ progress_queue' = Append(progress_queue, Message("progress", op, ops[op].path))
    /\ ops' = [ops EXCEPT ![op].left = @ - 1]
    /\ UNCHANGED <<current_path, visualizer, heap, is_processing, tree_text,
                   results_tree, timers, nOps, handled, discarded>>
    /\ UNCHANGED treeVars

\* _generate_tree_thread ends: put ('done', tree), or ('error', str(e)) when
\* visualize raised
generate_tree_thread_end(op) ==
    /\ ops[op].kind = "tree"
    /\ ops[op].pc = "running"
    /\ \E type \in {"done", "error"} :
           progress_queue' = Append(progress_queue, Message(type, op, ops[op].path))
    /\ ops' = [ops EXCEPT ![op].pc = "finished"]
    /\ UNCHANGED <<current_path, visualizer, heap, is_processing, tree_text,
                   results_tree, timers, nOps, handled, discarded>>
    /\ UNCHANGED treeVars

\* _search_files_thread ends: put ('search_done', results), or ('error', str(e))
search_files_thread_end(op) ==
    /\ ops[op].kind = "search"
    /\ ops[op].pc = "running"
    /\ \E type \in {"search_done", "error"} :
           progress_queue' = Append(progress_queue, Message(type, op, ops[op].path))
    /\ ops' = [ops EXCEPT ![op].pc = "finished"]
    /\ UNCHANGED <<current_path, visualizer, heap, is_processing, tree_text,
                   results_tree, timers, nOps, handled, discarded>>
    /\ UNCHANGED treeVars

\* _save_to_file.save_thread: write the file (its contents are outside the
\* model) and put ('save_done', file_path), or ('error', str(e)) when the
\* write failed
save_thread(op) ==
    /\ ops[op].kind = "save"
    /\ ops[op].pc = "ready"
    /\ \E type \in {"save_done", "error"} :
           progress_queue' = Append(progress_queue,
                                    Message(type, op, ""))
    /\ ops' = [ops EXCEPT ![op].pc = "finished"]
    /\ UNCHANGED <<current_path, visualizer, heap, is_processing, tree_text,
                   results_tree, timers, nOps, handled, discarded>>
    /\ UNCHANGED treeVars

\* the position of the first queued message whose type is in stops (0: none)
FirstOf(q, stops) ==
    IF \E i \in 1..Len(q) : q[i].type \in stops
    THEN CHOOSE i \in 1..Len(q) :
             q[i].type \in stops /\ \A j \in 1..(i-1) : q[j].type \notin stops
    ELSE 0

\* the operations whose terminal event sits among the first n queued messages
TerminalOps(q, n) == {q[i].op : i \in {j \in 1..n : q[j].type \in TerminalTypes}}

\* _monitor_progress and _monitor_search_progress: take messages until the
\* completion type or 'error' comes (acted on by _update_tree_display,
\* _update_search_results or _show_error), skipping every other message; on
\* queue.Empty poll again only while is_processing
drain_monitor(op, completion) ==
    LET k == FirstOf(progress_queue, {completion, "error"})
    IN  IF k = 0
        THEN /\ progress_queue' = <<>>
             /\ discarded' = discarded \cup TerminalOps(progress_queue, Len(progress_queue))
             /\ IF is_processing
                THEN UNCHANGED <<ops, timers>>
                ELSE /\ timers' = timers \ {op}
                     /\ ops' = [ops EXCEPT ![op].mon = "stopped"]
             /\ UNCHANGED <<is_processing, tree_text, results_tree,
                            handled>>
        ELSE LET msg == progress_queue[k]
                 view == [st |-> msg.type, op |-> msg.op, path |-> msg.path]
             IN  /\ progress_queue' = SubSeq(progress_queue, k + 1, Len(progress_queue))
                 /\ discarded' = discarded \cup TerminalOps(progress_queue, k - 1)
                 /\ handled' = handled \cup {msg.op}
                 /\ is_processing' = FALSE
                 /\ timers' = timers \ {op}
                 /\ ops' = [ops EXCEPT ![op].mon = "stopped",
                                       ![op].got = (msg.op = op)]
                 /\ tree_text' = IF msg.type = "done" THEN view ELSE tree_text
                 /\ results_tree' = IF msg.type = "search_done" THEN view
                                    ELSE results_tree

\* FileStructureCreator._monitor_progress, as the timer of operation op fires
monitor_progress(op) ==
    /\ op \in timers
    /\ ops[op].kind = "tree"
    /\ drain_monitor(op, "done")
    /\ UNCHANGED <<current_path, visualizer, heap, nOps>>
    /\ UNCHANGED treeVars

\* FileStructureCreator._monitor_search_progress
monitor_search_progress(op) ==
    /\ op \in timers
    /\ ops[op].kind = "search"
    /\ drain_monitor(op, "search_done")
    /\ UNCHANGED <<current_path, visualizer, heap, nOps>>
    /\ UNCHANGED treeVars

\* FileStructureCreator._monitor_save_progress: one get_nowait per firing
monitor_save_progress(op) ==
    /\ op \in timers
    /\ ops[op].kind = "save"
    /\ IF progress_queue = <<>>
       THEN UNCHANGED <<progress_queue, is_processing, ops, timers,
                        handled, discarded>>
       ELSE LET msg == Head(progress_queue)
            IN  /\ progress_queue' = Tail(progress_queue)
                /\ timers' = timers \ {op}
                /\ ops' = [ops EXCEPT ![op].mon = "stopped",
                                      ![op].got = (msg.op = op /\
                                                   msg.type \in {"save_done", "error"})]
                /\ is_processing' = IF msg.type = "error" THEN FALSE
                                    ELSE is_processing
                /\ handled' = IF msg.type \in {"save_done", "error"}
                              THEN handled \cup {msg.op} ELSE handled
                /\ discarded' = IF msg.type \in {"done", "search_done"}
                                THEN discarded \cup {msg.op} ELSE discarded
    /\ UNCHANGED <<current_path, visualizer, heap, tree_text, results_tree, nOps>>
    /\ UNCHANGED treeVars

UserStep == select_folder \/ search_files_clicked \/ save_structure

WorkerStep ==
    \E op \in OpIds :
        \/ scan_thread_begin(op)
        \/ scan_thread_progress(op)
        \/ generate_tree_thread_end(op)
        \/ search_files_thread_end(op)
        \/ save_thread(op)

TimerStep ==
    \E op \in OpIds :
        \/ monitor_progress(op)
        \/ monitor_search_progress(op)
        \/ monitor_save_progress(op)

----------------------------------------------------------------------------
(* The tree builder and the search engine on every bounded directory tree: *)
(* a session builds the tree, then searches the same root with the same    *)
(* configuration                                                           *)

ExcludeChoices == { <<>>, << <<"x">> >> }
DepthChoices == {None} \cup {Some(m) : m \in 0..MaxDepthOpt}
Configs == {TreeVisualizer(h, m, p) :
                h \in BOOLEAN, m \in DepthChoices, p \in ExcludeChoices}
SearchPatterns == { <<"*">>, <<"a">> }

Optional(S) == {Absent} \cup S

\* The directory trees of the model: slot 1 is a directory, slot 2 any entry,
\* slot 4 a file or a directory that may hold slot 6, slot 5 a file; names are
\* distinct within a directory.  (Slot 3 is used by ProjExample only.)
FileSystems ==
    UNION { UNION { UNION { UNION {
        { (0 :> [name |-> RootName, kind |-> "dir"]) @@ (1 :> e1) @@ (2 :> e2)
          @@ (3 :> Absent) @@ (4 :> e4) @@ (5 :> e5) @@ (6 :> e6) :
            e6 \in IF e4.kind = "dir"
                   THEN Optional(Entries({NamePool[1]}, {"file"}))
                   ELSE {Absent} } :
            e5 \in IF e4.kind # "absent"
                   THEN Optional(Entries(Names \ {e4.name}, {"file"}))
                   ELSE {Absent} } :
            e4 \in IF e1.kind = "dir"
                   THEN Optional(Entries(Names, {"dir", "file"}))
                   ELSE {Absent} } :
            e2 \in Optional(Entries(Names \ {e1.name}, {"dir", "file", "other"})) } :
            e1 \in Entries(Names, {"dir", "denied"}) }

\* the example of the specification: proj holding .git/, src/main.py and
\* README.md
ProjExample ==
    (0 :> [name |-> <<"p","r","o","j">>, kind |-> "dir"])
    @@ (1 :> [name |-> <<"s","r","c">>, kind |-> "dir"])
    @@ (2 :> [name |-> <<".","g","i","t">>, kind |-> "dir"])
    @@ (3 :> [name |-> <<"R","E","A","D","M","E",".","m","d">>, kind |-> "file"])
    @@ (4 :> [name |-> <<"m","a","i","n",".","p","y">>, kind |-> "file"])
    @@ (5 :> Absent) @@ (6 :> Absent)

\* a scan root whose own listing fails
DeniedRoot ==
    [s \in Slots |-> IF s = 0 THEN [name |-> RootName, kind |-> "denied"]
                     ELSE Absent]

TreeInit ==
    /\ fs \in FileSystems \cup {ProjExample, DeniedRoot}
    /\ cfg \in Configs
    /\ tree = None
    /\ pattern = None
    /\ results = None
    /\ AppInit

Visualize ==
    /\ tree = None
    /\ tree' = Some(visualize(fs, cfg))
    /\ UNCHANGED <<fs, cfg, pattern, results>>
    /\ UNCHANGED appVars

Search ==
    /\ tree # None
    /\ results = None
    /\ \E p \in SearchPatterns :
           /\ pattern' = Some(p)
           /\ results' = Some(search_files(fs, cfg, p))
    /\ UNCHANGED <<fs, cfg, tree>>
    /\ UNCHANGED appVars

TreeNext == Visualize \/ Search

TreeSpec == TreeInit /\ [][TreeNext]_vars

----------------------------------------------------------------------------
(* The matching rule of search_files on every bounded pattern and name: the *)
(* scan root holds one file, and one search is run on it                   *)

PatternAlphabet == {"a", "B", ".", "*", "?"}
NameAlphabet == {"A", "b", ".", "*", "?"}
Strings(alphabet, lengths) == UNION {[1..k -> alphabet] : k \in lengths}

TxtPattern == <<"*", ".", "t", "x", "t">>
NotesTXT == <<"n","o","t","e","s",".","T","X","T">>
NotesTxtBak == <<"n","o","t","e","s",".","t","x","t",".","b","a","k">>

MatchPatterns == Strings(PatternAlphabet, 0..MaxPatternLen) \cup {TxtPattern}
\* "." and ".." are never names of directory entries
MatchNames ==
    (Strings(NameAlphabet, 1..MaxNameLen) \ { <<".">>, <<".", ".">> })
    \cup {NotesTXT, NotesTxtBak}

OneFile(name) ==
    [s \in Slots |-> CASE s = 0 -> [name |-> RootName, kind |-> "dir"]
                       [] s = 1 -> [name |-> name, kind |-> "file"]
                       [] OTHER -> Absent]

MatchInit ==
    /\ \E name \in MatchNames : fs = OneFile(name)
    /\ cfg = TreeVisualizer(TRUE, None, <<>>)
    /\ tree = None
    /\ pattern = None
    /\ results = None
    /\ AppInit

MatchSearch ==
    /\ results = None
    /\ \E p \in MatchPatterns :
           /\ pattern' = Some(p)
           /\ results' = Some(search_files(fs, cfg, p))
    /\ UNCHANGED <<fs, cfg, tree>>
    /\ UNCHANGED appVars

MatchNext == MatchSearch

MatchSpec == MatchInit /\ [][MatchNext]_vars

----------------------------------------------------------------------------
(* The tree builder run again and again on one unchanged directory tree:   *)
(* each run is handed the entries of every directory in an order of the    *)
(* file system's choosing                                                  *)

\* The directory trees of these runs: the root holds the directory of slot 1
\* and up to two more directories or files, slot 1 holds up to two files.
RerunFileSystems ==
    UNION { UNION { UNION { UNION {
        { (0 :> [name |-> RootName, kind |-> "dir"]) @@ (1 :> e1) @@ (2 :> e2)
          @@ (3 :> e3) @@ (4 :> e4) @@ (5 :> e5) @@ (6 :> Absent) :
            e5 \in IF e4.kind # "absent"
                   THEN Optional(Entries(Names \ {e4.name}, {"file"}))
                   ELSE {Absent} } :
            e4 \in Optional(Entries(Names, {"file"})) } :
            e3 \in IF e2.kind # "absent"
                   THEN Optional(Entries(Names \ {e1.name, e2.name}, {"dir", "file"}))
                   ELSE {Absent} } :
            e2 \in Optional(Entries(Names \ {e1.name}, {"dir", "file"})) } :
            e1 \in Entries(Names, {"dir"}) }

\* the same directory tree as f, listed in another order: iterdir yields the
\* entries of a directory in no particular order, and the order of the slots
\* is the order of the listing
Relistings(f) ==
    { [s \in Slots |-> CASE s \in {2, 3} -> f[p[s]]
                         [] s \in {4, 5} -> f[q[s]]
                         [] OTHER -> f[s]] :
        p \in Permutations({2, 3}), q \in Permutations({4, 5}) }

RerunInit ==
    /\ fs \in RerunFileSystems
    /\ cfg \in Configs
    /\ tree = None
    /\ pattern = None
    /\ results = None
    /\ AppInit

\* a later run of visualize on the same directory tree
Revisualize ==
    /\ tree # None
    /\ \E listed \in Relistings(fs) : tree' = Some(visualize(listed, cfg))
    /\ UNCHANGED <<fs, cfg, pattern, results>>
    /\ UNCHANGED appVars

RerunNext == Visualize \/ Revisualize

RerunSpec == RerunInit /\ [][RerunNext]_vars

----------------------------------------------------------------------------
(* The application: the user, the worker threads and the Tk timers         *)

\* the tree-builder harness stays idle while the application runs
EmptyRoot ==
    [s \in Slots |-> IF s = 0 THEN [name |-> RootName, kind |-> "dir"] ELSE Absent]

Init ==
    /\ AppInit
    /\ fs = EmptyRoot
    /\ cfg = TreeVisualizer(FALSE, None, << <<"x">> >>)
    /\ tree = None
    /\ pattern = None
    /\ results = None

Next == UserStep \/ WorkerStep \/ TimerStep

Spec == Init /\ [][Next]_vars

\* Every started thread is scheduled and the Tk main loop fires every pending
\* timer; the user is free to stop clicking.
FairSpec == Spec /\ WF_vars(WorkerStep) /\ WF_vars(TimerStep)

----------------------------------------------------------------------------
(* Reading the outputs back: what a line of the tree text and a record of  *)
(* the search results say about the entry they stand for                   *)

\* the lines of the tree text after the root line
BodyLines(text) == Tail(split(text, "\n"))

\* the number of leading four-character indent units of a line
RECURSIVE IndentUnits(_)
IndentUnits(line) ==
    IF Len(line) >= 4 /\ SubSeq(line, 1, 4) \in {BlankIndent, BarIndent}
    THEN 1 + IndentUnits(SubSeq(line, 5, Len(line)))
    ELSE 0

LinePrefix(line) == SubSeq(line, 1, 4 * IndentUnits(line))
LineConnector(line) ==
    SubSeq(line, 4 * IndentUnits(line) + 1, 4 * IndentUnits(line) + 4)
LineName(line) == SubSeq(line, 4 * IndentUnits(line) + 5, Len(line))
IsPlaceholder(line) == LineName(line) = PermissionDenied

\* the body line of the directory that line i is listed under (0: the root)
ParentLine(lines, i) ==
    LET Above == {j \in 1..(i-1) :
                     IndentUnits(lines[j]) = IndentUnits(lines[i]) - 1}
    IN  IF Above = {} THEN 0
        ELSE CHOOSE j \in Above : \A k \in Above : k <= j

\* the child of directory d named name (d itself when there is none)
ChildNamed(f, d, name) ==
    LET Found == {c \in Slots : /\ \E k \in 1..Len(ChildSlots[d]) : ChildSlots[d][k] = c
                                /\ f[c].kind # "absent"
                                /\ f[c].name = name}
    IN  IF Found = {} THEN d ELSE CHOOSE c \in Found : TRUE

\* the slot of the entry that body line i renders
RECURSIVE SlotOfLine(_, _, _)
SlotOfLine(f, lines, i) ==
    IF i = 0 THEN 0
    ELSE ChildNamed(f, SlotOfLine(f, lines, ParentLine(lines, i)),
                    LineName(lines[i]))

EntryLines(lines) == {i \in 1..Len(lines) : ~IsPlaceholder(lines[i])}
RenderedSlots(f, lines) == {SlotOfLine(f, lines, i) : i \in EntryLines(lines)}

\* the slot a search record stands for, found through its relative_path
RECURSIVE SlotOfPath(_, _, _)
SlotOfPath(f, d, names) ==
    IF names = <<>> THEN d
    ELSE SlotOfPath(f, ChildNamed(f, d, Head(names)), Tail(names))

SlotOfResult(f, r) == SlotOfPath(f, 0, split(r.relative_path, "/"))
ResultSlots(f, res) == {SlotOfResult(f, res[i]) : i \in 1..Len(res)}

\* The exclusion rule as the specification words it
ExcludedName(c, name) ==
    \/ ~c.show_hidden /\ name # <<>> /\ name[1] = "."
    \/ \E i \in 1..Len(c.exclude_patterns) :
          \E k \in 1..Len(name) : \E l \in k..Len(name) :
              SubSeq(name, k, l) = c.exclude_patterns[i]

\* an entry that is not excluded and lies under non-excluded, listable
\* directories only
RECURSIVE Visible(_, _, _)
Visible(f, c, s) ==
    \/ s = 0
    \/ /\ f[s].kind # "absent"
       /\ ~ExcludedName(c, f[s].name)
       /\ f[ParentOf(s)].kind = "dir"
       /\ Visible(f, c, ParentOf(s))

\* the last of the filtered children of directory d, directories sorted
\* before files and each group by lower-cased name
IsLastSibling(f, c, s) ==
    LET Sib == {t \in Slots \ {0} :
                   /\ ParentOf(t) = ParentOf(s)
                   /\ f[t].kind \in {"dir", "denied", "file"}
                   /\ ~ExcludedName(c, f[t].name)}
        Before(t, u) ==
            \/ f[t].kind # "file" /\ f[u].kind = "file"
            \/ /\ (f[t].kind = "file") = (f[u].kind = "file")
               /\ StrLess(lower(f[t].name), lower(f[u].name))
    IN  s \in Sib /\ \A t \in Sib \ {s} : ~Before(s, t)

----------------------------------------------------------------------------
(* Claims about the tree builder and the search engine                     *)

\* C1: every rendered entry uses the elbow connector iff it is the last item
\* of its directory's filtered, sorted sibling list, and the tee otherwise.
\* (As the claim states it; the code breaks it under a non-last directory.)
C1_ConnectorInvariant ==
    tree # None =>
        LET lines == BodyLines(tree[1])
        IN  \A i \in EntryLines(lines) :
                LineConnector(lines[i]) =
                    IF IsLastSibling(fs, cfg, SlotOfLine(fs, lines, i))
                    THEN ElbowConnector ELSE TeeConnector

\* C2: the lines of the children of a directory D carry D's prefix extended
\* by four spaces when D is the last of its siblings and by a vertical bar
\* and three spaces when it is not.
\* (As the claim states it; the code extends by what D's parent was.)
C2_ContinuationPrefix ==
    tree # None =>
        LET lines == BodyLines(tree[1])
        IN  \A i \in 1..Len(lines) :
                ParentLine(lines, i) # 0 =>
                    LET d == ParentLine(lines, i)
                    IN  LinePrefix(lines[i]) =
                            LinePrefix(lines[d]) \o
                            (IF IsLastSibling(fs, cfg, SlotOfLine(fs, lines, d))
                             THEN BlankIndent ELSE BarIndent)

\* the body line index range of each entry's depth: a line with k indent
\* units renders an entry k + 1 directory levels below the root
LineDepth(line) == IndentUnits(line) + 1
\* the depth of the entry a search record stands for
ResultDepth(r) == Len(split(r.relative_path, "/"))

\* C3: with max_depth = m no entry of depth greater than m (root = 0, its
\* direct children = 1) appears in the tree or in the search results; with
\* max_depth None every non-excluded entry is reached.
\* (As the claim states it; the code lets depth m + 1 through.)
C3_DepthBound ==
    /\ (tree # None /\ cfg.max_depth # None) =>
           \A i \in EntryLines(BodyLines(tree[1])) :
               LineDepth(BodyLines(tree[1])[i]) <= cfg.max_depth[1]
    /\ (results # None /\ cfg.max_depth # None) =>
           \A i \in 1..Len(results[1]) :
               ResultDepth(results[1][i]) <= cfg.max_depth[1]
    /\ (tree # None /\ cfg.max_depth = None) =>
           \A s \in Slots \ {0} :
               (Visible(fs, cfg, s) /\ fs[s].kind # "other")
                   => s \in RenderedSlots(fs, BodyLines(tree[1]))
    /\ (results # None /\ cfg.max_depth = None /\ pattern = Some(<<"*">>)) =>
           \A s \in Slots \ {0} :
               Visible(fs, cfg, s) => s \in ResultSlots(fs, results[1])

\* the half of C3 that the code keeps: unbounded traversal reaches everything
C3_UnboundedReachesAll ==
    /\ (tree # None /\ cfg.max_depth = None) =>
           \A s \in Slots \ {0} :
               (Visible(fs, cfg, s) /\ fs[s].kind # "other")
                   => s \in RenderedSlots(fs, BodyLines(tree[1]))
    /\ (results # None /\ cfg.max_depth = None /\ pattern = Some(<<"*">>)) =>
           \A s \in Slots \ {0} :
               Visible(fs, cfg, s) => s \in ResultSlots(fs, results[1])

\* the entries that are not excluded and reachable within max_depth
WithinDepth(c, s) == c.max_depth = None \/ DepthOf(s) <= c.max_depth[1]
ReachableEntries(f, c) ==
    {s \in Slots \ {0} : Visible(f, c, s) /\ WithinDepth(c, s)}

\* C8: the number of lines of visualize, not counting the root line, equals
\* the number of entries that are not excluded and reachable within max_depth.
\* (As the claim states it.)
C8_LineCount ==
    tree # None =>
        Len(BodyLines(tree[1])) = Cardinality(ReachableEntries(fs, cfg))

\* What the code counts instead: one line per non-excluded directory or file
\* of a listed directory, and one placeholder per unlistable directory that
\* the traversal enters.
RenderedEntries(f, c) ==
    {s \in Slots \ {0} : /\ f[s].kind \in {"dir", "denied", "file"}
                         /\ ~ExcludedName(c, f[s].name)
                         /\ f[ParentOf(s)].kind = "dir"
                         /\ Visible(f, c, ParentOf(s))
                         /\ ~DepthExceeded(c, DepthOf(ParentOf(s)))}
DeniedEntered(f, c) ==
    {d \in Slots : /\ f[d].kind = "denied"
                   /\ d = 0 \/ d \in RenderedEntries(f, c)
                   /\ ~DepthExceeded(c, DepthOf(d))}
C8_LineCountOfCode ==
    tree # None =>
        Len(BodyLines(tree[1])) =
            Cardinality(RenderedEntries(fs, cfg)) + Cardinality(DeniedEntered(fs, cfg))

\* two body lines listed under the same directory
Siblings(lines, i, j) ==
    /\ IndentUnits(lines[i]) = IndentUnits(lines[j])
    /\ ParentLine(lines, i) = ParentLine(lines, j)

\* C9: within every rendered directory the lines of sub-directories come
\* before the lines of files, and within each group the names ascend
\* case-insensitively.
C9_SortInvariant ==
    tree # None =>
        LET lines == BodyLines(tree[1])
            IsDirLine(i) == is_dir(fs, SlotOfLine(fs, lines, i))
        IN  \A i, j \in EntryLines(lines) :
                (i < j /\ Siblings(lines, i, j)) =>
                    /\ IsDirLine(j) => IsDirLine(i)
                    /\ (IsDirLine(i) = IsDirLine(j)) =>
                           ~StrLess(lower(LineName(lines[j])),
                                    lower(LineName(lines[i])))

\* C9 witness: a rendered directory lists a sub-directory before a file whose
\* name sorts first, next to a B-before-a pair that only lower-casing orders
C9_Witness ==
    /\ tree # None
    /\ LET lines == BodyLines(tree[1])
           IsDirLine(i) == is_dir(fs, SlotOfLine(fs, lines, i))
       IN  /\ \E i, j \in EntryLines(lines) :
                  /\ i < j /\ Siblings(lines, i, j)
                  /\ IsDirLine(i) /\ ~IsDirLine(j)
                  /\ StrLess(lower(LineName(lines[j])), lower(LineName(lines[i])))
           /\ \E i, j \in EntryLines(lines) :
                  /\ i < j /\ Siblings(lines, i, j)
                  /\ IsDirLine(i) = IsDirLine(j)
                  /\ StrLess(LineName(lines[j]), LineName(lines[i]))
                  /\ StrLess(lower(LineName(lines[i])), lower(LineName(lines[j])))

\* a directory whose listing the traversal takes: it is visible, listable
\* and passes the depth guard
Listed(f, c, d) ==
    /\ Visible(f, c, d)
    /\ f[d].kind = "dir"
    /\ ~(c.max_depth # None /\ DepthOf(d) > c.max_depth[1])

AbsentFromBoth(s) ==
    /\ s \notin RenderedSlots(fs, BodyLines(tree[1]))
    /\ s \notin ResultSlots(fs, results[1])

BothOutputs == tree # None /\ results # None /\ pattern = Some(<<"*">>)

\* C10 as the claim states it: every entry of the scanned tree is absent from
\* the tree and from a match-all search iff its name is excluded.
C10_ExclusionAllEntries ==
    BothOutputs =>
        \A s \in Slots \ {0} :
            fs[s].kind # "absent" =>
                (AbsentFromBoth(s) <=> ExcludedName(cfg, fs[s].name))

\* C10 (amended): every entry of a directory that the traversal lists is
\* absent from the tree and from a match-all search iff its name is excluded.
C10_ExclusionListedEntries ==
    BothOutputs =>
        \A s \in Slots \ {0} :
            (fs[s].kind # "absent" /\ Listed(fs, cfg, ParentOf(s))) =>
                (AbsentFromBoth(s) <=> ExcludedName(cfg, fs[s].name))

\* C10 witness: a listed directory holds an excluded entry, absent from both
\* outputs, and a kept entry, present in both
C10_Witness ==
    /\ BothOutputs
    /\ \E s, t \in Slots \ {0} :
          /\ fs[s].kind # "absent" /\ Listed(fs, cfg, ParentOf(s))
          /\ ExcludedName(cfg, fs[s].name) /\ AbsentFromBoth(s)
          /\ fs[t].kind # "absent" /\ ParentOf(t) = ParentOf(s)
          /\ t \in RenderedSlots(fs, BodyLines(tree[1]))
          /\ t \in ResultSlots(fs, results[1])

\* the body line that renders entry s (0 when there is none)
LineOfSlot(f, lines, s) ==
    LET Found == {i \in EntryLines(lines) : SlotOfLine(f, lines, i) = s}
    IN  IF s = 0 \/ Found = {} THEN 0 ELSE CHOOSE i \in Found : TRUE

\* the body lines of the subtree of the entry rendered by line i (all body
\* lines for i = 0, the root)
SubtreeLines(lines, i) ==
    IF i = 0 THEN 1..Len(lines)
    ELSE {j \in (i+1)..Len(lines) :
             \A k \in (i+1)..j : IndentUnits(lines[k]) > IndentUnits(lines[i])}

\* the entries strictly below directory d
RECURSIVE Below(_, _)
Below(d, s) == s # 0 /\ (ParentOf(s) = d \/ Below(d, ParentOf(s)))

\* the prefix the specification gives the children of the entry on line i:
\* the entry's own prefix extended by blanks under a last sibling and by a
\* bar otherwise (nothing for the root)
ChildPrefix(f, c, lines, i) ==
    IF i = 0 THEN <<>>
    ELSE LinePrefix(lines[i]) \o
         (IF IsLastSibling(f, c, SlotOfLine(f, lines, i))
          THEN BlankIndent ELSE BarIndent)

\* the siblings of d that the tree renders: directories and files that are
\* not excluded
KeptSiblings(f, c, d) ==
    {t \in Slots \ {0, d} : /\ d # 0
                            /\ ParentOf(t) = ParentOf(d)
                            /\ f[t].kind \in {"dir", "denied", "file"}
                            /\ ~ExcludedName(c, f[t].name)}

\* C11: when the listing of a directory D fails, the tree holds for D's
\* subtree exactly the one line "<prefix>^-- [Permission Denied]", prefix
\* being the prefix of D's children, and still renders D's siblings; the
\* search returns no record from below D and still returns D's matching
\* siblings.
\* (As the claim states it; the code's placeholder carries the prefix that
\* next_prefix computes, which is not the children's prefix of C2.)
C11_UnreadableDirectory ==
    /\ tree # None =>
           LET lines == BodyLines(tree[1])
           IN  \A d \in DeniedEntered(fs, cfg) :
                   LET i == LineOfSlot(fs, lines, d)
                   IN  /\ d # 0 => i # 0
                       /\ SubtreeLines(lines, i) = {i + 1}
                       /\ lines[i + 1] = ChildPrefix(fs, cfg, lines, i)
                                         \o ElbowConnector \o PermissionDenied
                       /\ \A t \in KeptSiblings(fs, cfg, d) :
                              t \in RenderedSlots(fs, lines)
    /\ results # None =>
           \A d \in DeniedEntered(fs, cfg) :
               /\ \A s \in ResultSlots(fs, results[1]) : ~Below(d, s)
               /\ \A t \in KeptSiblings(fs, cfg, d) :
                      matches(pattern[1], fs[t].name)
                          => t \in ResultSlots(fs, results[1])

\* the part of C11 that the code keeps: one placeholder line per unlistable
\* directory, at one indent level more than the directory, the siblings
\* rendered and searched, nothing returned from below
C11_PlaceholderOfCode ==
    /\ tree # None =>
           LET lines == BodyLines(tree[1])
           IN  \A d \in DeniedEntered(fs, cfg) :
                   LET i == LineOfSlot(fs, lines, d)
                   IN  /\ d # 0 => i # 0
                       /\ SubtreeLines(lines, i) = {i + 1}
                       /\ IsPlaceholder(lines[i + 1])
                       /\ LineConnector(lines[i + 1]) = ElbowConnector
                       /\ \A t \in KeptSiblings(fs, cfg, d) :
                              t \in RenderedSlots(fs, lines)
    /\ results # None =>
           \A d \in DeniedEntered(fs, cfg) :
               /\ \A s \in ResultSlots(fs, results[1]) : ~Below(d, s)
               /\ \A t \in KeptSiblings(fs, cfg, d) :
                      matches(pattern[1], fs[t].name)
                          => t \in ResultSlots(fs, results[1])

\* The matching rule as the specification words it.  Two characters are the
\* same when they are equal up to letter case.
SameChar(a, b) == LowerChar(a) = LowerChar(b)

\* the whole name matches the wildcard pattern: '*' stands for any sequence,
\* '?' for exactly one character, any other character (also '.') for itself
RECURSIVE GlobMatch(_, _)
GlobMatch(p, n) ==
    IF p = <<>> THEN n = <<>>
    ELSE LET last == p[Len(p)]
             front == SubSeq(p, 1, Len(p) - 1)
         IN  IF last = "*"
             THEN \E k \in 0..Len(n) : GlobMatch(front, SubSeq(n, 1, k))
             ELSE /\ n # <<>>
                  /\ last = "?" \/ SameChar(last, n[Len(n)])
                  /\ GlobMatch(front, SubSeq(n, 1, Len(n) - 1))

\* the pattern occurs in the name, letter case apart
SubstringMatch(p, n) ==
    \E i \in 0..(Len(n) - Len(p)) :
        \A j \in 1..Len(p) : SameChar(p[j], n[i + j])

HasWildcard(p) == \E i \in 1..Len(p) : p[i] \in {"*", "?"}

ExpectedMatch(p, n) ==
    IF HasWildcard(p) THEN GlobMatch(p, n) ELSE SubstringMatch(p, n)

\* C12: search_files reports a name as a match exactly when the pattern has a
\* wildcard and the whole name matches it case-insensitively ('.' literal,
\* '*' any sequence, '?' one character), or the pattern has none and occurs
\* in the name case-insensitively.
C12_MatchRule ==
    (results # None /\ fs[1].kind = "file" /\ fs[2].kind = "absent") =>
        ((\E i \in 1..Len(results[1]) : results[1][i].name = fs[1].name)
            <=> ExpectedMatch(pattern[1], fs[1].name))

\* C12 witness: "*.txt" has been searched for and has matched "notes.TXT"
C12_Witness ==
    /\ results # None
    /\ pattern = Some(TxtPattern)
    /\ fs[1].name = NotesTXT
    /\ Len(results[1]) = 1
    /\ results[1][1].name = NotesTXT

\* C12, the other half of the example: "*.txt" does not match "notes.txt.bak"
C12_BakNotMatched ==
    (results # None /\ pattern = Some(TxtPattern) /\ fs[1].name = NotesTxtBak)
        => results[1] = <<>>

\* every directory of the tree can be listed
AllListingsSucceed(f) == \A s \in Slots : f[s].kind # "denied"

\* C13: when every listing succeeds, the entries returned by a search that
\* matches every name are the entries rendered by the tree builder, for the
\* same root and the same configuration.
\* (As the claim states it; the tree builder drops the entries that are
\* neither directories nor regular files, the search returns them.)
C13_SameEntries ==
    (BothOutputs /\ AllListingsSucceed(fs)) =>
        ResultSlots(fs, results[1]) = RenderedSlots(fs, BodyLines(tree[1]))

\* the part of C13 that the code keeps: the two sets agree on directories
\* and regular files
C13_SameDirsAndFiles ==
    (BothOutputs /\ AllListingsSucceed(fs)) =>
        {s \in ResultSlots(fs, results[1]) : fs[s].kind # "other"}
            = RenderedSlots(fs, BodyLines(tree[1]))

\* the records of the search are in pre-order: a record of an entry comes
\* before the records of the entries below it, the records of each subtree
\* are contiguous, and relative_path is the non-empty path from the root
PreOrderRecords(f, res) ==
    LET slot(i) == SlotOfResult(f, res[i])
        InSubtree(d, i) == slot(i) = d \/ Below(d, slot(i))
    IN  /\ \A i, j \in 1..Len(res) : Below(slot(i), slot(j)) => i < j
        /\ \A d \in Slots \ {0} : \A i, j, k \in 1..Len(res) :
               (i < k /\ k < j /\ InSubtree(d, i) /\ InSubtree(d, j))
                   => InSubtree(d, k)
        /\ \A i \in 1..Len(res) :
               /\ res[i].relative_path # <<>>
               /\ slot(i) # 0
               /\ res[i].relative_path = join(<<"/">>, PathNames(f, slot(i)))
               /\ res[i].name = f[slot(i)].name

\* exactly one record for each entry of the set S, and no other record
OneRecordEach(f, res, S) ==
    /\ \A i \in 1..Len(res) : SlotOfResult(f, res[i]) \in S
    /\ \A s \in S : Cardinality({i \in 1..Len(res) : SlotOfResult(f, res[i]) = s}) = 1

\* C14: search_files returns exactly one record for each matching entry that
\* is not excluded and reachable within max_depth, in pre-order, each with
\* the non-empty relative path of its entry.
\* (As the claim states it; the code also returns the entries one level
\* below max_depth.)
C14_SearchRecords ==
    results # None =>
        /\ OneRecordEach(fs, results[1],
               {s \in ReachableEntries(fs, cfg) :
                    ExpectedMatch(pattern[1], fs[s].name)})
        /\ PreOrderRecords(fs, results[1])

\* the part of C14 that the code keeps: one record for each matching,
\* non-excluded entry of the directories the traversal lists, in pre-order
C14_RecordsOfCode ==
    results # None =>
        /\ OneRecordEach(fs, results[1],
               {s \in Slots \ {0} : /\ fs[s].kind # "absent"
                                    /\ Listed(fs, cfg, ParentOf(s))
                                    /\ ~ExcludedName(cfg, fs[s].name)
                                    /\ ExpectedMatch(pattern[1], fs[s].name)})
        /\ PreOrderRecords(fs, results[1])

\* a search that returned a directory, an entry below it and an entry after it
C14_PreOrderSeen ==
    /\ results # None
    /\ \E i, j, k \in 1..Len(results[1]) :
          /\ i < j /\ j < k
          /\ Below(SlotOfResult(fs, results[1][i]), SlotOfResult(fs, results[1][j]))
          /\ ~Below(SlotOfResult(fs, results[1][i]), SlotOfResult(fs, results[1][k]))

\* the text of the specification's example: proj/, src with main.py below
\* it, README.md last
ProjExpected ==
    join(<<"\n">>,
         << <<"p","r","o","j","/">>,
            TeeConnector \o <<"s","r","c">>,
            BarIndent \o ElbowConnector \o <<"m","a","i","n",".","p","y">>,
            ElbowConnector \o <<"R","E","A","D","M","E",".","m","d">> >>)

DefaultConfig == TreeVisualizer(FALSE, None, <<>>)

\* C15: for proj holding the hidden directory .git, the directory src with
\* the single file main.py and the file README.md, visualize with the
\* default configuration returns the four lines of ProjExpected.
\* (As the claim states it; the code draws main.py with a tee under a blank
\* indent.)
C15_ProjExample ==
    (tree # None /\ fs = ProjExample /\ cfg = DefaultConfig)
        => tree[1] = ProjExpected

\* what the code returns for the example
ProjOfCode ==
    join(<<"\n">>,
         << <<"p","r","o","j","/">>,
            TeeConnector \o <<"s","r","c">>,
            BlankIndent \o TeeConnector \o <<"m","a","i","n",".","p","y">>,
            ElbowConnector \o <<"R","E","A","D","M","E",".","m","d">> >>)

C15_ProjExampleOfCode ==
    (tree # None /\ fs = ProjExample /\ cfg = DefaultConfig)
        => tree[1] = ProjOfCode

\* C16: a later run of visualize on the same unchanged directory tree with
\* the same configuration returns the string of the run before it, whatever
\* order the listing hands the entries over in.
\* (As the claim states it; two names that differ only in letter case have
\* the same sort key and keep the order of the listing.)
C16_SameTextOnRerun ==
    [][tree # None => tree' = tree]_vars

\* two entries of one directory, both directories or both files, whose names
\* differ only in letter case
CaseTwins(f) ==
    \E s, t \in Slots \ {0} :
        /\ s # t /\ ParentOf(s) = ParentOf(t)
        /\ f[s].kind # "absent" /\ f[s].kind = f[t].kind
        /\ lower(f[s].name) = lower(f[t].name)

\* the part of C16 that the code keeps: without such names in the tree every
\* run returns the same string
C16_SameTextWithoutCaseTwins ==
    [][(tree # None /\ ~CaseTwins(fs)) => tree' = tree]_vars

----------------------------------------------------------------------------
(* Claims about the application                                            *)

\* the worker threads that have been started and have not ended
RunningWorkers == {op \in OpIds : ops[op].pc \in {"ready", "running"}}
\* the tree and search workers among them
ScansInFlight == {op \in RunningWorkers : ops[op].kind \in {"tree", "search"}}

\* C4: in every reachable state at most one background worker (tree, search
\* or save) is running.
\* (As the claim states it; only generate_tree looks at is_processing.)
C4_OneWorkerAtATime == Cardinality(RunningWorkers) <= 1

\* C5: every started tree generation or search has its terminal event acted
\* on by the UI, and is_processing is reset to False.
\* (As the claim states it; checked under FairSpec.)
C5_OutcomeReachesUser ==
    \A op \in OpIds :
        (ops[op].kind \in {"tree", "search"})
            ~> (op \in handled /\ ~is_processing)

\* C6: a polling loop is rescheduled for as long as it has not received the
\* completion or error event of its own operation, and is never rescheduled
\* once it has.
\* (As the claim states it.)
C6_PollsUntilTerminalEvent ==
    \A op \in OpIds :
        ops[op].kind # "none" =>
            /\ ~ops[op].got => (ops[op].mon = "pending" /\ op \in timers)
            /\ ops[op].got => (ops[op].mon = "stopped" /\ op \notin timers)

\* C7: while a scan is in flight nothing writes the scan configuration: no
\* TreeVisualizer is created or assigned to.
\* (As the claim states it.)
C7_ConfigStableDuringScan ==
    [][ScansInFlight # {} => (heap' = heap /\ visualizer' = visualizer)]_vars

\* a step in which a monitor took messages off the queue and every message
\* it took was a 'progress' message
ReadOnlyProgress ==
    /\ Len(progress_queue') < Len(progress_queue)
    /\ \A i \in 1..(Len(progress_queue) - Len(progress_queue')) :
           progress_queue[i].type = "progress"

\* C17: 'progress' messages are advisory: the outcome of a monitor firing
\* that read nothing but 'progress' messages is the outcome it has when those
\* messages were dropped and it found the queue empty.  The views and
\* is_processing stay as they are, and the monitor stops polling only where
\* it stops on an empty queue (a scan monitor once is_processing is False).
\* (As the claim states it, for one firing; the save monitor stops polling on
\* any message it reads.)
C17_ProgressAdvisory ==
    [][ReadOnlyProgress =>
          /\ is_processing' = is_processing
          /\ tree_text' = tree_text
          /\ results_tree' = results_tree
          /\ handled' = handled
          /\ \A op \in OpIds :
                 (ops[op].mon = "pending" /\ ops'[op].mon = "stopped")
                     => (ops[op].kind \in {"tree", "search"} /\ ~is_processing)
      ]_vars

\* the part of C17 that the code keeps: the monitors of the tree generation
\* and of the search skip 'progress' messages
C17_ScanMonitorsSkipProgress ==
    [][ReadOnlyProgress =>
          /\ is_processing' = is_processing
          /\ tree_text' = tree_text
          /\ results_tree' = results_tree
          /\ handled' = handled
          /\ \A op \in OpIds :
                 (ops[op].mon = "pending" /\ ops'[op].mon = "stopped")
                     => (ops[op].kind = "save" \/ ~is_processing)
      ]_vars


\* the completion event of each kind of worker
CompletionOf(kind) ==
    CASE kind = "tree" -> "done"
      [] kind = "search" -> "search_done"
      [] kind = "save" -> "save_done"
      [] OTHER -> "none"

\* the operations whose terminal event has been taken off the queue
Consumed == handled \cup discarded

\* what the queue holds of each worker: 'progress' messages of scans only,
\* at most one terminal event, of the worker's own kind or 'error', nothing
\* behind it, no terminal event before the worker has ended and none of a
\* worker whose terminal event has been consumed
QueueOrdered ==
    \A i \in 1..Len(progress_queue) :
        LET msg == progress_queue[i]
        IN  /\ ops[msg.op].kind # "none"
            /\ msg.op \notin Consumed
            /\ msg.type = "progress" => ops[msg.op].kind \in {"tree", "search"}
            /\ msg.type # "progress" =>
                   /\ msg.type \in {CompletionOf(ops[msg.op].kind), "error"}
                   /\ ops[msg.op].pc = "finished"
                   /\ \A j \in (i+1)..Len(progress_queue) :
                          progress_queue[j].op # msg.op

\* a worker that has not ended has no terminal event queued or consumed, and
\* a worker that has ended has exactly one, queued or consumed
OneTerminalEach ==
    \A op \in OpIds :
        LET Queued == {i \in 1..Len(progress_queue) :
                          /\ progress_queue[i].op = op
                          /\ progress_queue[i].type \in TerminalTypes}
        IN  IF ops[op].pc = "finished"
            THEN Cardinality(Queued) + (IF op \in Consumed THEN 1 ELSE 0) = 1
            ELSE Queued = {} /\ op \notin Consumed

\* a step puts at most one message, behind the others, and only a worker
\* that has not ended puts; a step that takes messages takes them from the
\* front
FifoDiscipline ==
    \/ progress_queue' = progress_queue
    \/ /\ Len(progress_queue') = Len(progress_queue) + 1
       /\ SubSeq(progress_queue', 1, Len(progress_queue)) = progress_queue
       /\ ops[progress_queue'[Len(progress_queue')].op].pc \in {"ready", "running"}
    \/ /\ Len(progress_queue') < Len(progress_queue)
       /\ progress_queue' = SubSeq(progress_queue,
                                   Len(progress_queue) - Len(progress_queue') + 1,
                                   Len(progress_queue))

\* C18: each worker puts zero or more 'progress' messages, then exactly one
\* terminal event (its completion event or 'error') and nothing after it; the
\* queue is first-in first-out, so no 'progress' message of a scan is read
\* after the terminal event of that scan.
C18_WorkerProtocol ==
    [](QueueOrdered /\ OneTerminalEach) /\ [][FifoDiscipline]_vars

\* C18 witness: a scan put a 'progress' message and then its terminal event,
\* and a monitor has read both
C18_Witness ==
    \E op \in OpIds :
        /\ ops[op].kind \in {"tree", "search"}
        /\ ops[op].left < MaxProgress
        /\ ops[op].pc = "finished"
        /\ op \in Consumed
        /\ progress_queue = <<>>

\* C19: the terminal event of an operation is taken off the queue by the
\* monitor of that operation only: no operation's terminal event has been
\* consumed without its own monitor having received it.
\* (As the claim states it; every monitor reads the one shared queue.)
C19_OwnMonitorOnly ==
    \A op \in OpIds : op \in Consumed => ops[op].got

\* a scan in flight: its worker has not ended, or its terminal event is
\* queued and not yet handled
ScanInFlight(op) ==
    /\ ops[op].kind \in {"tree", "search"}
    /\ \/ ops[op].pc \in {"ready", "running"}
       \/ \E i \in 1..Len(progress_queue) :
              /\ progress_queue[i].op = op
              /\ progress_queue[i].type \in TerminalTypes

\* C20: is_processing is True exactly when a tree generation or a search is
\* in flight.
\* (As the claim states it; the handler of any terminal event resets the
\* flag, and a discarded terminal event leaves it set.)
C20_ProcessingFlag ==
    is_processing <=> \E op \in OpIds : ScanInFlight(op)

\* the part of C20 that the code keeps: the flag is right as long as a
\* single operation has been started
C20_ProcessingFlagFirstOperation ==
    nOps <= 1 => (is_processing <=> \E op \in OpIds : ScanInFlight(op))

\* the application is idle: the flag is down, no worker thread is running
\* and the queue is empty
Idle ==
    /\ ~is_processing
    /\ RunningWorkers = {}
    /\ progress_queue = <<>>

\* C21: whenever the application is idle and the tree view shows a generated
\* tree, that tree was generated from the folder held in current_path.
\* (As the claim states it; select_folder assigns current_path before
\* generate_tree finds is_processing set and returns.)
C21_TreeOfCurrentPath ==
    (Idle /\ tree_text.st = "done") => tree_text.path = current_path[1]

====
